---- MODULE Spec2Model ----
(***************************************************************************)
(* Model of src/src/main.rs: the AdiOS Model Performance Monitoring        *)
(* plugin.  The plugin is a value built by new() and then used through     *)
(* &self methods: name, version, description, pricing_tiers and run (which *)
(* calls the private run_ui).  The state is the plugin value itself (its   *)
(* info and the PluginState behind the RwLock), what has been written to   *)
(* the log (info!) and to standard output (println!), and the history of   *)
(* the calls made so far with what each returned.                          *)
(*                                                                         *)
(* Conventions:                                                            *)
(*  - f64 literals of the source (0.93, 0.85) are written in hundredths    *)
(*    (93, 85); no arithmetic is done on them anywhere in the source.      *)
(*  - the bullet U+2022 of the source's format strings is written "*".     *)
(*  - println! is taken to succeed (standard output is writable).          *)
(***************************************************************************)
EXTENDS Integers, Sequences, FiniteSets, TLC

\* Bound: the number of method calls made on the plugin after new().
MaxCalls == 3

\* env!("CARGO_PKG_VERSION") is fixed when the crate is built; the manifest
\* is not part of the sources, so the build picks one of these.
PkgVersions == {"0.1.0", "1.0.0"}

VARIABLES
    CARGO_PKG_VERSION,  \* the version string compiled into the binary
    plugin,             \* NoPlugin, or the ModelPerformanceMonitoringPlugin
    new_result,         \* "none" before new(), then the tag of its Result
    log,                \* lines emitted through tracing's info!
    stdout,             \* lines emitted through println!
    returns             \* history of calls: <<[op, value]>>

vars == <<CARGO_PKG_VERSION, plugin, new_result, log, stdout, returns>>

NoPlugin == [none |-> TRUE]

----------------------------------------------------------------------------
\* impl Default for PluginState (main.rs 80-98)

PluginState_default_wrong_interval ==
    [ monitored_models |-> {},
      system_metrics |-> [ total_models |-> 0, healthy_models |-> 0,
                           degraded_models |-> 0, average_performance |-> 93 ],
      config |-> [ check_interval_minutes |-> 15,
                   performance_threshold |-> 85,
                   auto_remediation |-> TRUE,
                   alert_enabled |-> TRUE ] ]

PluginState_default ==
    [ monitored_models |-> {},
      system_metrics |-> [ total_models |-> 0, healthy_models |-> 0,
                           degraded_models |-> 0, average_performance |-> 93 ],
      config |-> [ check_interval_minutes |-> 5,
                   performance_threshold |-> 85,
                   auto_remediation |-> TRUE,
                   alert_enabled |-> TRUE ] ]

----------------------------------------------------------------------------
\* ModelPerformanceMonitoringPlugin::new (main.rs 101-117)

new_wrong_name(pkg_version) ==
    [ tag |-> "Ok",
      value |-> [ info |-> [ id |-> "adios.model-performance-monitoring",
                             name |-> "AdiOS Model Performance Monitor",
                             version |-> pkg_version,
                             description |-> "Enterprise model performance monitoring service",
                             author |-> "TridentBiz Team",
                             category |-> "enterprise" ],
                  state |-> PluginState_default ] ]

new(pkg_version) ==
    [ tag |-> "Ok",
      value |-> [ info |-> [ id |-> "adios.model-performance-monitoring",
                             name |-> "AdiOS Model Performance Monitoring",
                             version |-> pkg_version,
                             description |-> "Enterprise model performance monitoring service",
                             author |-> "TridentBiz Team",
                             category |-> "enterprise" ],
                  state |-> PluginState_default ] ]

\* name / version / description (main.rs 119-129)
name(self) == self.info.name

version(self) == self.info.version

description(self) == self.info.description

----------------------------------------------------------------------------
\* ModelPerformanceMonitoringPlugin::pricing_tiers (main.rs 131-166)

pricing_tiers_swapped(self) ==
    << [ name |-> "Starter", price |-> 150000,
         features |-> << "Basic model monitoring", "Up to 10 models",
                         "Performance dashboards", "Email alerts" >> ],
       [ name |-> "Enterprise", price |-> 3000000,
         features |-> << "Unlimited models", "Advanced AI-driven optimization",
                         "Custom remediation workflows", "Dedicated support team",
                         "On-premises deployment" >> ],
       [ name |-> "Professional", price |-> 750000,
         features |-> << "Advanced monitoring & analytics", "Up to 100 models",
                         "Auto-remediation", "Custom metrics",
                         "Priority support" >> ] >>

pricing_tiers(self) ==
    << [ name |-> "Starter", price |-> 150000,
         features |-> << "Basic model monitoring", "Up to 10 models",
                         "Performance dashboards", "Email alerts" >> ],
       [ name |-> "Professional", price |-> 750000,
         features |-> << "Advanced monitoring & analytics", "Up to 100 models",
                         "Auto-remediation", "Custom metrics",
                         "Priority support" >> ],
       [ name |-> "Enterprise", price |-> 3000000,
         features |-> << "Unlimited models", "Advanced AI-driven optimization",
                         "Custom remediation workflows", "Dedicated support team",
                         "On-premises deployment" >> ] >>

----------------------------------------------------------------------------
\* Formatting of "${:.2}" applied to `tier.price as f32 / 100.0`
\* (main.rs 179, 212).  A u32 below 2^24 converts to f32 exactly, and the
\* quotient printed with two decimals is the dollars and the cents.

TwoDigits(n) == IF n < 10 THEN "0" \o ToString(n) ELSE ToString(n)

fmt_price(price) ==
    "$" \o ToString(price \div 100) \o "." \o TwoDigits(price % 100)

\* The inner loop of run over tier.features (main.rs 180-182)
RECURSIVE feature_lines(_)
feature_lines(features) ==
    IF features = << >> THEN << >>
    ELSE << "    * " \o Head(features) >> \o feature_lines(Tail(features))

\* The loop of run over the tiers (main.rs 178-183)
RECURSIVE tier_log_lines(_)
tier_log_lines(tiers) ==
    IF tiers = << >> THEN << >>
    ELSE << "  " \o Head(tiers).name \o " - " \o fmt_price(Head(tiers).price)
                 \o "/month" >>
         \o feature_lines(Head(tiers).features)
         \o tier_log_lines(Tail(tiers))

\* The loop of run_ui over the tiers (main.rs 211-213)
RECURSIVE tier_ui_lines(_)
tier_ui_lines(tiers) ==
    IF tiers = << >> THEN << >>
    ELSE << "  * " \o Head(tiers).name \o " - " \o fmt_price(Head(tiers).price)
                 \o "/month" >>
         \o tier_ui_lines(Tail(tiers))

\* ModelPerformanceMonitoringPlugin::run_ui (main.rs 192-219): what it
\* prints and the Result it returns.
run_ui(self) ==
    [ result |-> "Ok",
      out |-> << "=== AdiOS Model Performance Monitoring Plugin ===",
                 "Enterprise model performance monitoring and auto-improvement",
                 "",
                 "Available commands:",
                 "  1. Add model to monitoring",
                 "  2. View model health dashboard",
                 "  3. Show pricing tiers",
                 "  4. Exit",
                 "",
                 "Key Features:",
                 "  * Real-time performance monitoring",
                 "  * Automated remediation",
                 "  * Performance analytics",
                 "  * Custom alerting",
                 "",
                 "Pricing Tiers:" >>
              \o tier_ui_lines(pricing_tiers(self))
              \o << "", "Plugin is ready for model monitoring!" >> ]

\* ModelPerformanceMonitoringPlugin::run (main.rs 168-190): the lines it
\* logs, what run_ui printed, the Result, and the plugin as run leaves it.
\* run takes &self and never takes the write lock of self.state.
run_registers_model(self) ==
    [ result |-> run_ui(self).result,
      log |-> << "Starting AdiOS Model Performance Monitoring Plugin v"
                    \o version(self),
                 "Plugin: " \o name(self),
                 "Description: " \o description(self),
                 "Available pricing tiers:" >>
              \o tier_log_lines(pricing_tiers(self))
              \o << "Starting model performance monitoring interface..." >>,
      out |-> run_ui(self).out,
      self |-> [ self EXCEPT !.state.monitored_models = @ \cup {"m1"},
                             !.state.system_metrics.total_models = @ + 1 ] ]

run(self) ==
    [ result |-> run_ui(self).result,
      log |-> << "Starting AdiOS Model Performance Monitoring Plugin v"
                    \o version(self),
                 "Plugin: " \o name(self),
                 "Description: " \o description(self),
                 "Available pricing tiers:" >>
              \o tier_log_lines(pricing_tiers(self))
              \o << "Starting model performance monitoring interface..." >>,
      out |-> run_ui(self).out,
      self |-> self ]

----------------------------------------------------------------------------
\* The state machine

Init ==
    /\ CARGO_PKG_VERSION \in PkgVersions
    /\ plugin = NoPlugin
    /\ new_result = "none"
    /\ log = << >>
    /\ stdout = << >>
    /\ returns = << >>

\* let plugin = ModelPerformanceMonitoringPlugin::new().await  (main.rs 237, 249, 259)
New ==
    /\ new_result = "none"
    /\ new_result' = new(CARGO_PKG_VERSION).tag
    /\ plugin' = IF new(CARGO_PKG_VERSION).tag = "Ok"
                 THEN new(CARGO_PKG_VERSION).value ELSE NoPlugin
    /\ UNCHANGED <<CARGO_PKG_VERSION, log, stdout, returns>>

CanCall == plugin # NoPlugin /\ Len(returns) < MaxCalls

Name ==
    /\ CanCall
    /\ returns' = Append(returns, [op |-> "name", value |-> name(plugin)])
    /\ UNCHANGED <<CARGO_PKG_VERSION, plugin, new_result, log, stdout>>

Version ==
    /\ CanCall
    /\ returns' = Append(returns, [op |-> "version", value |-> version(plugin)])
    /\ UNCHANGED <<CARGO_PKG_VERSION, plugin, new_result, log, stdout>>

Description ==
    /\ CanCall
    /\ returns' = Append(returns, [op |-> "description", value |-> description(plugin)])
    /\ UNCHANGED <<CARGO_PKG_VERSION, plugin, new_result, log, stdout>>

PricingTiers ==
    /\ CanCall
    /\ returns' = Append(returns, [op |-> "pricing_tiers", value |-> pricing_tiers(plugin)])
    /\ UNCHANGED <<CARGO_PKG_VERSION, plugin, new_result, log, stdout>>

\* plugin.run().await  (main.rs 238)
Run ==
    /\ CanCall
    /\ log' = log \o run(plugin).log
    /\ stdout' = stdout \o run(plugin).out
    /\ plugin' = run(plugin).self
    /\ returns' = Append(returns, [op |-> "run", value |-> run(plugin).result])
    /\ UNCHANGED <<CARGO_PKG_VERSION, new_result>>

Next == New \/ Name \/ Version \/ Description \/ PricingTiers \/ Run

Spec == Init /\ [][Next]_vars

----------------------------------------------------------------------------
\* Properties

Calls == 1..Len(returns)

MetadataOps == {"name", "version", "description"}

\* C7: every call of pricing_tiers, whatever was called before it, returns
\* exactly three tiers in the order Starter (150000 cents), Professional
\* (750000), Enterprise (3000000), and any two calls return equal results.
PricingTiersFixed ==
    \A i \in Calls :
        returns[i].op = "pricing_tiers" =>
            /\ Len(returns[i].value) = 3
            /\ returns[i].value[1].name = "Starter"
            /\ returns[i].value[1].price = 150000
            /\ returns[i].value[2].name = "Professional"
            /\ returns[i].value[2].price = 750000
            /\ returns[i].value[3].name = "Enterprise"
            /\ returns[i].value[3].price = 3000000
            /\ \A j \in Calls :
                   returns[j].op = "pricing_tiers" =>
                       returns[j].value = returns[i].value

\* pricing_tiers was called, then run, then pricing_tiers again.
PricingTiersCalledAroundRun ==
    \E i, j, k \in Calls :
        /\ i < j /\ j < k
        /\ returns[i].op = "pricing_tiers"
        /\ returns[j].op = "run"
        /\ returns[k].op = "pricing_tiers"

\* C8: new() returns Ok; the plugin's name() is "AdiOS Model Performance
\* Monitoring", its version() is the package version and its description()
\* is not empty, at construction and at every later call, run() included.
NewOkAndMetadataStable ==
    /\ new_result \in {"none", "Ok"}
    /\ new_result = "Ok" =>
           /\ plugin # NoPlugin
           /\ name(plugin) = "AdiOS Model Performance Monitoring"
           /\ version(plugin) = CARGO_PKG_VERSION
           /\ description(plugin) # ""
    /\ \A i \in Calls :
           /\ returns[i].op = "name" =>
                  returns[i].value = "AdiOS Model Performance Monitoring"
           /\ returns[i].op = "version" =>
                  returns[i].value = CARGO_PKG_VERSION
           /\ returns[i].op = "description" =>
                  returns[i].value # ""

\* new() returned, run() was called, and a metadata accessor was called
\* after it.
MetadataReadAfterRun ==
    /\ new_result = "Ok"
    /\ \E i, j \in Calls :
           /\ i < j
           /\ returns[i].op = "run"
           /\ returns[j].op \in MetadataOps

\* C9: the plugin built by new() has check_interval_minutes = 5 and
\* performance_threshold = 0.85 (85 hundredths), and keeps both in every
\* reachable state.
ConfigKeepsDefaults ==
    plugin # NoPlugin =>
        /\ plugin.state.config.check_interval_minutes = 5
        /\ plugin.state.config.performance_threshold = 85

\* The plugin exists and run() has been called on it at least twice, and
\* nothing else.
ConfigAfterRuns ==
    /\ plugin # NoPlugin
    /\ Len(returns) >= 2
    /\ \A i \in Calls : returns[i].op = "run"

\* C10: no operation writes the plugin state: monitored_models is empty and
\* system_metrics has total_models, healthy_models and degraded_models 0 in
\* every state after new(); every run() returned Ok, after printing the
\* interface text to standard output.
StateNeverWrittenRunOk ==
    /\ plugin # NoPlugin =>
           /\ plugin.state.monitored_models = {}
           /\ plugin.state.system_metrics.total_models = 0
           /\ plugin.state.system_metrics.healthy_models = 0
           /\ plugin.state.system_metrics.degraded_models = 0
    /\ \A i \in Calls :
           returns[i].op = "run" =>
               /\ returns[i].value = "Ok"
               /\ stdout # << >>
               /\ stdout[Len(stdout)] = "Plugin is ready for model monitoring!"
               /\ log # << >>

\* run() returned, and pricing_tiers() was called once run had returned.
OtherOpAfterRun ==
    \E i, j \in Calls :
        /\ i < j
        /\ returns[i].op = "run"
        /\ returns[j].op \notin {"run"} \cup MetadataOps

====
